---- MODULE Spec2Model ----
(***************************************************************************)
(* Model of colcon_ros/package_identification/ros.py: the manifest cache   *)
(* (_cached_packages), the loader (_get_package), the classifier           *)
(* (_get_build_type), RosPackageIdentification.identify and                *)
(* RosPackageIdentification.augment_packages.                              *)
(*                                                                         *)
(* Python's None is the empty tuple and a present value x is <<x>>, so     *)
(* that "absent" never collides with a string the program handles.         *)
(***************************************************************************)
EXTENDS Integers, Sequences, FiniteSets, TLC

None == <<>>
Some(x) == <<x>>
The(o) == o[1]

(***************************************************************************)
(* Bounds of the model.                                                    *)
(***************************************************************************)
\* most invocations of the loader that are followed for one path
MaxLoads == 2
\* most marker files (besides package.xml) that the workspace holds
MaxFiles == 1

(***************************************************************************)
(* The workspace: directories, the files identify() looks for, and the     *)
(* package manifests that may sit in a directory.                          *)
(***************************************************************************)
Paths == {"ws/p1", "ws/p2"}
MarkerFiles == {"CATKIN_IGNORE", "AMENT_IGNORE", "manifest.xml", "setup.py"}
\* the names for which identify() tells a regular file from a directory: it
\* asks is_file() of setup.py and exists() of the others
DirectoryNames == {"setup.py"}

\* os.environ, against which the manifest's conditions are evaluated
Environ == [ROS_VERSION |-> "2"]

\* the version attributes of a manifest dependency, in the order of the tuple
attributes == <<"version_lte", "version_lt", "version_gte", "version_gt", "version_eq">>

\* a condition attribute: None, or "$var == value"
Cond(var, value) == Some([var |-> var, value |-> value])
OnRos1 == Cond("ROS_VERSION", "1")
OnRos2 == Cond("ROS_VERSION", "2")

\* a catkin_pkg Dependency as parse_package leaves it (condition not evaluated)
Dep(name, condition) ==
    [name |-> name, condition |-> condition, evaluated_condition |-> None,
     version_lte |-> None, version_lt |-> None, version_gte |-> None,
     version_gt |-> None, version_eq |-> None]
DepV(name, condition, attr, value) == [Dep(name, condition) EXCEPT ![attr] = Some(value)]

\* a catkin_pkg GroupDependency as parse_package leaves it
Group(name, condition) ==
    [name |-> name, condition |-> condition, evaluated_condition |-> None]

NoDeps ==
    [build_depends |-> <<>>, buildtool_depends |-> <<>>,
     build_export_depends |-> <<>>, buildtool_export_depends |-> <<>>,
     exec_depends |-> <<>>, test_depends |-> <<>>,
     group_depends |-> <<>>, member_of_groups |-> <<>>]

\* the contents package.xml can have; "absent" is no package.xml at all
ManifestIds == {"absent", "malformed", "asserting", "pkg_a", "pkg_b", "pkg_c", "pkg_two"}

\* what parse_package yields for a well-formed manifest
ManifestPackage(id) ==
    CASE id = "pkg_a" ->
           [NoDeps EXCEPT
              !.build_depends = <<DepV("b", None, "version_gte", "1.2"),
                                  Dep("old_tool", OnRos1)>>,
              !.buildtool_depends = <<Dep("ament_cmake", None),
                                      DepV("b", None, "version_lt", "2.0")>>,
              !.build_export_depends = <<Dep("e", OnRos2)>>,
              !.buildtool_export_depends = <<DepV("ament_cmake", None, "version_eq", "0.9")>>,
              !.exec_depends = <<Dep("x", OnRos1), DepV("e", None, "version_gt", "3")>>,
              !.test_depends = <<DepV("gtest", None, "version_lte", "1.8"), Dep("t1", OnRos1)>>,
              !.group_depends = <<Group("g", OnRos2), Group("h", OnRos1)>>,
              !.member_of_groups = <<Group("h", None)>>]
           @@ [name |-> "a", version |-> "1.0.0", build_type_exports |-> <<"ament_cmake">>]
      [] id = "pkg_b" ->
           [NoDeps EXCEPT
              !.build_depends = <<Dep("a", None)>>,
              !.exec_depends = <<Dep("rclpy", None)>>,
              !.group_depends = <<Group("g", None)>>,
              !.member_of_groups = <<Group("g", None)>>]
           @@ [name |-> "b", version |-> "0.2.0", build_type_exports |-> <<"ament_python">>]
      [] id = "pkg_c" ->
           [NoDeps EXCEPT
              !.build_depends = <<Dep("lib", OnRos2)>>,
              !.exec_depends = <<Dep("x", OnRos1)>>,
              !.member_of_groups = <<Group("g", OnRos2), Group("h", OnRos1)>>]
           @@ [name |-> "c", version |-> "3.1.4", build_type_exports |-> <<>>]
      [] id = "pkg_two" ->
           [NoDeps EXCEPT !.build_depends = <<Dep("a", None)>>]
           @@ [name |-> "two", version |-> "0.0.1",
               build_type_exports |-> <<"cmake", "ament_cmake">>]

(***************************************************************************)
(* The state.                                                              *)
(***************************************************************************)
VARIABLES
    fs,                 \* the directories: [path -> [manifest, files, dirs]]
    _cached_packages,   \* the module's dict: cached path -> [pkg, build_type]
    descs,              \* the package descriptors, by descriptor id
    loads,              \* per path, how often _get_package was invoked
    log,                \* the records handed to logger.warning / logger.error
    result,             \* per descriptor, its latest identify call
    augmented,          \* the batch, when the latest call was a recorded augment_packages
    premature,          \* what a call of augment_packages made before the scan ended did
    calls               \* per thread, its get_package_with_build_type call in progress

vars == <<fs, _cached_packages, descs, loads, log, result, augmented, premature, calls>>

(***************************************************************************)
(* The descriptors handed to identify().  A descriptor made by the scanner *)
(* is fresh; one that an earlier extension or external configuration has   *)
(* touched carries a type or a name already.                               *)
(***************************************************************************)
DescIds == {"d1", "d2"}
PresetTypes == {None, Some("ros"), Some("cmake")}
PresetNames == {None, Some("custom")}
DependencyTypes == {"build", "run", "test"}

\* colcon_core's PackageDescriptor(path), with type and name as preset
PackageDescriptor(path, type, name) ==
    [path |-> path, type |-> type, name |-> name, metadata |-> <<>>,
     dependencies |-> [k \in DependencyTypes |-> {}]]

\* colcon_core's DependencyDescriptor: a name, with metadata beside it
DependencyDescriptor(name, metadata) == [name |-> name, metadata |-> metadata]

\* a slip: an element of the same name is replaced by the one added
SetAdd_Replace(S, dd) == {e \in S : e.name # dd.name} \cup {dd}

\* set.add on a set of DependencyDescriptor, which compare and hash by name:
\* an element whose name is present already is not added again
SetAdd(S, dd) == IF \E e \in S : e.name = dd.name THEN S ELSE S \cup {dd}

(***************************************************************************)
(* catkin_pkg, as ros.py uses it.                                          *)
(***************************************************************************)
\* (desc.path / name).exists(): an entry of that name, of whatever kind
Exists(path, name) == name \in fs[path].files

\* a slip: exists() is asked where is_file() is meant
IsFile_AnyEntry(path, name) == name \in fs[path].files

\* (desc.path / name).is_file(): an entry of that name that is a regular file
IsFile(path, name) == name \in fs[path].files \ fs[path].dirs

\* catkin_pkg.package.package_exists_at
package_exists_at(path) == fs[path].manifest # "absent"

\* catkin_pkg.package.parse_package: the package, or the exception raised
parse_package(path) ==
    CASE fs[path].manifest = "malformed" -> [raised |-> Some("InvalidPackage"), pkg |-> None]
      [] fs[path].manifest = "asserting" -> [raised |-> Some("AssertionError"), pkg |-> None]
      [] OTHER -> [raised |-> None, pkg |-> Some(ManifestPackage(fs[path].manifest))]

\* Dependency.evaluate_condition: no condition is true, "$var == value" is looked up
evaluate_condition(c, context) ==
    [c EXCEPT !.evaluated_condition =
        IF c.condition = None THEN Some(TRUE)
        ELSE Some(context[The(c.condition).var] = The(c.condition).value)]

ConditionalLists ==
    {"build_depends", "buildtool_depends", "build_export_depends",
     "buildtool_export_depends", "exec_depends", "test_depends",
     "group_depends", "member_of_groups"}

\* Package.evaluate_conditions: every conditional of the package is evaluated
evaluate_conditions(pkg, context) ==
    [k \in DOMAIN pkg |->
        IF k \in ConditionalLists
        THEN [i \in 1..Len(pkg[k]) |-> evaluate_condition(pkg[k][i], context)]
        ELSE pkg[k]]

\* Package.get_build_type: 'catkin' without a build_type export, the export if
\* there is one, InvalidPackage if there are several
get_build_type(pkg) ==
    CASE Len(pkg.build_type_exports) = 0 -> [raised |-> None, value |-> Some("catkin")]
      [] Len(pkg.build_type_exports) = 1 ->
           [raised |-> None, value |-> Some(pkg.build_type_exports[1])]
      [] OTHER -> [raised |-> Some("InvalidPackage"), value |-> None]

(***************************************************************************)
(* The loader, the classifier and the cache.                               *)
(***************************************************************************)
\* _get_package(path): the package with its conditions evaluated, or None
_get_package(path) ==
    IF ~package_exists_at(path) THEN None
    ELSE LET r == parse_package(path) IN
         IF r.raised \in {Some("AssertionError"), Some("InvalidPackage")} THEN None
         ELSE Some(evaluate_conditions(The(r.pkg), Environ))

\* the names locals() holds in _get_build_type: its parameter and its import
_get_build_type_locals == {"pkg", "InvalidPackage"}
\* the names the warning's format string looks up: {pkg.name} and {path}
WarningFields == {"pkg", "path"}

\* _get_build_type(pkg): the build type; when get_build_type raises
\* InvalidPackage the warning is formatted from locals(), and format_map
\* raises KeyError for a field that locals() does not hold
_get_build_type(pkg) ==
    LET r == get_build_type(pkg) IN
    IF r.raised = None
    THEN [raised |-> None, value |-> r.value, warnings |-> {}]
    ELSE IF WarningFields \subseteq _get_build_type_locals
    THEN [raised |-> None, value |-> None,
          warnings |-> {[level |-> "warning", pkg |-> Some(pkg.name),
                         path |-> None, build_type |-> None]}]
    ELSE [raised |-> Some("KeyError"), value |-> None, warnings |-> {}]

\* a slip: the memo is not keyed by the path, any stored pair is returned
get_package_with_build_type_Keyless(cache, path) ==
    IF DOMAIN cache = {}
    THEN LET pkg == _get_package(path)
             bt == IF pkg # None THEN _get_build_type(The(pkg))
                   ELSE [raised |-> None, value |-> None, warnings |-> {}]
         IN  IF bt.raised # None
             THEN [raised |-> bt.raised, value |-> None, cache |-> cache,
                   loaded |-> {path}, warnings |-> bt.warnings]
             ELSE [raised |-> None,
                   value |-> Some([pkg |-> pkg, build_type |-> bt.value]),
                   cache |-> (path :> [pkg |-> pkg, build_type |-> bt.value]) @@ cache,
                   loaded |-> {path}, warnings |-> bt.warnings]
    ELSE [raised |-> None,
          value |-> Some(cache[CHOOSE q \in DOMAIN cache : TRUE]), cache |-> cache,
          loaded |-> {}, warnings |-> {}]

\* a slip: the pair is returned, but stored without its build type
get_package_with_build_type_DropsBuildType(cache, path) ==
    IF path \notin DOMAIN cache
    THEN LET pkg == _get_package(path)
             bt == IF pkg # None THEN _get_build_type(The(pkg))
                   ELSE [raised |-> None, value |-> None, warnings |-> {}]
         IN  IF bt.raised # None
             THEN [raised |-> bt.raised, value |-> None, cache |-> cache,
                   loaded |-> {path}, warnings |-> bt.warnings]
             ELSE [raised |-> None,
                   value |-> Some([pkg |-> pkg, build_type |-> bt.value]),
                   cache |-> (path :> [pkg |-> pkg, build_type |-> None]) @@ cache,
                   loaded |-> {path}, warnings |-> bt.warnings]
    ELSE [raised |-> None, value |-> Some(cache[path]), cache |-> cache,
          loaded |-> {}, warnings |-> {}]

\* a slip: a pair without a package is returned, but not stored
get_package_with_build_type_AbsentNotStored(cache, path) ==
    IF path \notin DOMAIN cache
    THEN LET pkg == _get_package(path)
             bt == IF pkg # None THEN _get_build_type(The(pkg))
                   ELSE [raised |-> None, value |-> None, warnings |-> {}]
         IN  IF bt.raised # None
             THEN [raised |-> bt.raised, value |-> None, cache |-> cache,
                   loaded |-> {path}, warnings |-> bt.warnings]
             ELSE [raised |-> None,
                   value |-> Some([pkg |-> pkg, build_type |-> bt.value]),
                   cache |-> IF pkg = None THEN cache
                             ELSE (path :> [pkg |-> pkg, build_type |-> bt.value]) @@ cache,
                   loaded |-> {path}, warnings |-> bt.warnings]
    ELSE [raised |-> None, value |-> Some(cache[path]), cache |-> cache,
          loaded |-> {}, warnings |-> {}]

\* a slip: the loader runs for the first path only; a later miss is stored
\* as a pair without a package
get_package_with_build_type_FirstPathOnly(cache, path) ==
    IF path \notin DOMAIN cache
    THEN LET pkg == IF DOMAIN cache = {} THEN _get_package(path) ELSE None
             bt == IF pkg # None THEN _get_build_type(The(pkg))
                   ELSE [raised |-> None, value |-> None, warnings |-> {}]
         IN  IF bt.raised # None
             THEN [raised |-> bt.raised, value |-> None, cache |-> cache,
                   loaded |-> {path}, warnings |-> bt.warnings]
             ELSE [raised |-> None,
                   value |-> Some([pkg |-> pkg, build_type |-> bt.value]),
                   cache |-> (path :> [pkg |-> pkg, build_type |-> bt.value]) @@ cache,
                   loaded |-> {path}, warnings |-> bt.warnings]
    ELSE [raised |-> None, value |-> Some(cache[path]), cache |-> cache,
          loaded |-> {}, warnings |-> {}]

\* get_package_with_build_type(path) on the cache `cache`: the pair returned
\* (or the exception that escapes), the cache afterwards, the paths handed to
\* the loader and the warnings logged
get_package_with_build_type(cache, path) ==
    IF path \notin DOMAIN cache
    THEN LET pkg == _get_package(path)
             bt == IF pkg # None THEN _get_build_type(The(pkg))
                   ELSE [raised |-> None, value |-> None, warnings |-> {}]
         IN  IF bt.raised # None
             THEN [raised |-> bt.raised, value |-> None, cache |-> cache,
                   loaded |-> {path}, warnings |-> bt.warnings]
             ELSE [raised |-> None,
                   value |-> Some([pkg |-> pkg, build_type |-> bt.value]),
                   cache |-> (path :> [pkg |-> pkg, build_type |-> bt.value]) @@ cache,
                   loaded |-> {path}, warnings |-> bt.warnings]
    ELSE [raised |-> None, value |-> Some(cache[path]), cache |-> cache,
          loaded |-> {}, warnings |-> {}]

(***************************************************************************)
(* RosPackageIdentification.identify                                       *)
(***************************************************************************)
\* a slip: every version attribute becomes a key, set or not
_create_metadata_EveryAttribute(dependency) ==
    [a \in {attributes[i] : i \in 1..Len(attributes)} |->
        IF dependency[a] # None THEN The(dependency[a]) ELSE ""]

\* _create_metadata(dependency): the version attributes that are not None
_create_metadata(dependency) ==
    [a \in {attributes[i] : i \in {j \in 1..Len(attributes) : dependency[attributes[j]] # None}}
        |-> The(dependency[a])]

\* one "for d in ...:" loop of identify over the dependencies ds, adding to the
\* set S: the set afterwards, and the AssertionError of a condition left None
RECURSIVE AddDependencies(_, _)
AddDependencies(S, ds) ==
    IF ds = <<>> THEN [set |-> S, raised |-> None]
    ELSE LET d == Head(ds) IN
         IF d.evaluated_condition = None
         THEN [set |-> S, raised |-> Some("AssertionError")]
         ELSE AddDependencies(
                IF The(d.evaluated_condition)
                THEN SetAdd(S, DependencyDescriptor(d.name, _create_metadata(d)))
                ELSE S,
                Tail(ds))

\* a slip: exec_depends is appended to the build lists, not the run lists
DependencyLists_ExecToBuild(pkg, k) ==
    CASE k = "build" -> pkg.build_depends \o pkg.buildtool_depends \o pkg.exec_depends
      [] k = "run" -> pkg.build_export_depends \o pkg.buildtool_export_depends
      [] k = "test" -> pkg.test_depends

\* the lists of the manifest that feed each dependency set, in the order added
DependencyLists(pkg, k) ==
    CASE k = "build" -> pkg.build_depends \o pkg.buildtool_depends
      [] k = "run" -> pkg.build_export_depends \o pkg.buildtool_export_depends
                      \o pkg.exec_depends
      [] k = "test" -> pkg.test_depends

\* the closure identify stores under 'get_python_setup_options'
Getter(path) ==
    [calls |-> "get_setup_arguments_with_context", file |-> path \o "/setup.py"]

LogRecord(level, pkg, path, build_type) ==
    [level |-> level, pkg |-> pkg, path |-> path, build_type |-> build_type]

\* a slip: the manifest's name is taken whether or not a name is set
NameFor_Manifest(desc, pkg) == Some(pkg.name)

\* lines 78-79: the manifest's name, unless the descriptor has a name already
NameFor(desc, pkg) == IF desc.name = None THEN Some(pkg.name) ELSE desc.name

\* lines 74-113 of identify: the descriptor is filled from the package
Populate(desc, pkg, build_type) ==
    LET typed == [desc EXCEPT !.type = Some("ros." \o build_type)]
        named == [typed EXCEPT !.name = NameFor(typed, pkg)]
        versioned == [named EXCEPT !.metadata = ("version" :> pkg.version) @@ @]
        build == AddDependencies(versioned.dependencies["build"], DependencyLists(pkg, "build"))
        withBuild == [versioned EXCEPT !.dependencies["build"] = build.set]
        run == AddDependencies(withBuild.dependencies["run"], DependencyLists(pkg, "run"))
        withRun == [withBuild EXCEPT !.dependencies["run"] = run.set]
        test == AddDependencies(withRun.dependencies["test"], DependencyLists(pkg, "test"))
        withTest == [withRun EXCEPT !.dependencies["test"] = test.set]
    IN  IF build.raised # None THEN [outcome |-> The(build.raised), desc |-> withBuild]
        ELSE IF run.raised # None THEN [outcome |-> The(run.raised), desc |-> withRun]
        ELSE IF test.raised # None THEN [outcome |-> The(test.raised), desc |-> withTest]
        ELSE IF build_type = "ament_python"
        THEN [outcome |-> "return",
              desc |-> [withTest EXCEPT !.metadata =
                          ("get_python_setup_options" :> Getter(desc.path)) @@ @]]
        ELSE [outcome |-> "return", desc |-> withTest]

\* a slip: a type this extension has given counts as its own, as 'ros' does
HasOtherType_RosFamily(desc) ==
    desc.type \notin {None, Some("ros"), Some("ros.catkin"), Some("ros.cmake"),
                      Some("ros.ament_cmake"), Some("ros.ament_python")}

\* a slip: the comparison with 'ros' is written the wrong way round
HasOtherType_Equal(desc) == desc.type # None /\ desc.type = Some("ros")

\* line 47: a descriptor that another extension has typed is left alone
HasOtherType(desc) == desc.type # None /\ desc.type # Some("ros")

\* a slip: only the first of the two marker files is looked for
HasIgnoreMarker_OnlyCatkin(path) == Exists(path, "CATKIN_IGNORE")

\* lines 51-54: an ignore marker file exists in the directory
HasIgnoreMarker(path) == Exists(path, "CATKIN_IGNORE") \/ Exists(path, "AMENT_IGNORE")

\* line 58: "not pkg or not build_type"; no package, or no (or an empty) build type
NotWetPackage(pkg, build_type) ==
    pkg = None \/ build_type = None \/ build_type = Some("")

\* lines 66-68: the build type is ament_python and setup.py is not a file
LacksSetupPy(path, build_type) ==
    build_type = "ament_python" /\ ~IsFile(path, "setup.py")

\* identify(desc) on the cache `cache`: how the call ends ("return", or the
\* exception that leaves it), the descriptor and the cache afterwards, the
\* paths handed to the loader and the records logged
identify(cache, desc) ==
    LET early(outcome) ==
            [outcome |-> outcome, desc |-> desc, cache |-> cache,
             loaded |-> {}, log |-> {}]
    IN
    IF HasOtherType(desc) THEN early("return")
    ELSE IF HasIgnoreMarker(desc.path) THEN early("IgnoreLocationException")
    ELSE
    LET r == get_package_with_build_type(cache, desc.path)
        late(outcome, d, records) ==
            [outcome |-> outcome, desc |-> d, cache |-> r.cache,
             loaded |-> r.loaded, log |-> r.warnings \cup records]
    IN
    IF r.raised # None THEN late(The(r.raised), desc, {})
    ELSE
    LET pkg == The(r.value).pkg
        build_type == The(r.value).build_type
    IN
    IF NotWetPackage(pkg, build_type)
    THEN IF Exists(desc.path, "manifest.xml")
         THEN late("IgnoreLocationException", desc, {})
         ELSE late("return", desc, {})
    ELSE IF LacksSetupPy(desc.path, The(build_type))
    THEN late("IgnoreLocationException", desc,
              {LogRecord("error", None, Some(desc.path), build_type)})
    ELSE LET p == Populate(desc, The(pkg), The(build_type))
         IN  late(p.outcome, p.desc, {})

(***************************************************************************)
(* RosPackageIdentification.augment_packages                               *)
(***************************************************************************)
\* a slip: the dict is replaced, not added to
DictSet_Replace(pkgs, key, desc) == <<[key |-> key, desc |-> desc]>>

\* pkgs[pkg] = desc on the dict pkgs, kept as its items in insertion order; a
\* Package is keyed by identity, which is the path it was parsed from
DictSet(pkgs, key, desc) ==
    IF \E i \in 1..Len(pkgs) : pkgs[i].key = key
    THEN [i \in 1..Len(pkgs) |->
            IF pkgs[i].key = key THEN [key |-> key, desc |-> desc] ELSE pkgs[i]]
    ELSE Append(pkgs, [key |-> key, desc |-> desc])

\* a slip: a descriptor is taken only if identify has given it a type
RECURSIVE CollectPkgs_TypedOnly(_, _, _, _)
CollectPkgs_TypedOnly(cache, ds, batch, pkgs) ==
    IF batch = <<>> THEN pkgs
    ELSE LET path == ds[Head(batch)].path IN
         IF path \notin DOMAIN cache \/ ds[Head(batch)].type = None
         THEN CollectPkgs_TypedOnly(cache, ds, Tail(batch), pkgs)
         ELSE IF cache[path].pkg # None
         THEN CollectPkgs_TypedOnly(cache, ds, Tail(batch), DictSet(pkgs, path, Head(batch)))
         ELSE CollectPkgs_TypedOnly(cache, ds, Tail(batch), pkgs)

\* lines 120-126: the parsed packages of the batch, each with its descriptor
RECURSIVE CollectPkgs(_, _, _, _)
CollectPkgs(cache, ds, batch, pkgs) ==
    IF batch = <<>> THEN pkgs
    ELSE LET path == ds[Head(batch)].path IN
         IF path \notin DOMAIN cache THEN CollectPkgs(cache, ds, Tail(batch), pkgs)
         ELSE IF cache[path].pkg # None
         THEN CollectPkgs(cache, ds, Tail(batch), DictSet(pkgs, path, Head(batch)))
         ELSE CollectPkgs(cache, ds, Tail(batch), pkgs)

\* a slip: the members are resolved against every cached package, not the
\* packages of the batch
extract_group_members_WholeCache(cache, group_depend, pkgs) ==
    {The(cache[p].pkg).name :
        p \in {q \in DOMAIN cache :
                 /\ cache[q].pkg # None
                 /\ \E k \in 1..Len(The(cache[q].pkg).member_of_groups) :
                       LET g == The(cache[q].pkg).member_of_groups[k]
                       IN  g.evaluated_condition = Some(TRUE) /\ g.name = group_depend.name}}

\* GroupDependency.extract_group_members(pkgs): the names of the packages of
\* pkgs that are members of the group under a true condition
extract_group_members(cache, group_depend, pkgs) ==
    {The(cache[pkgs[i].key].pkg).name :
        i \in {j \in 1..Len(pkgs) :
                 \E k \in 1..Len(The(cache[pkgs[j].key].pkg).member_of_groups) :
                    LET g == The(cache[pkgs[j].key].pkg).member_of_groups[k]
                    IN  g.evaluated_condition = Some(TRUE) /\ g.name = group_depend.name}}

\* a slip: the members are added to the build dependencies only
AddMembers_BuildOnly(desc, members) ==
    [desc EXCEPT !.dependencies["build"] =
        @ \cup {DependencyDescriptor(n, <<>>) :
                  n \in {m \in members : ~\E e \in @ : e.name = m}}]

\* lines 135-137: each member is added to the build and the run dependencies
AddMembers(desc, members) ==
    LET add(S) == S \cup {DependencyDescriptor(n, <<>>) :
                            n \in {m \in members : ~\E e \in S : e.name = m}}
    IN  [desc EXCEPT !.dependencies["build"] = add(@),
                     !.dependencies["run"] = add(@)]

\* a slip: a group dependency is resolved whatever its condition evaluated to
RECURSIVE AugmentGroups_AnyCondition(_, _, _, _)
AugmentGroups_AnyCondition(cache, desc, group_depends, pkgs) ==
    IF group_depends = <<>> THEN [desc |-> desc, raised |-> None]
    ELSE LET group_depend == Head(group_depends) IN
         IF group_depend.evaluated_condition = None
         THEN [desc |-> desc, raised |-> Some("AssertionError")]
         ELSE AugmentGroups_AnyCondition(cache,
                AddMembers(desc, extract_group_members(cache, group_depend, pkgs)),
                Tail(group_depends), pkgs)

\* lines 130-137 for one package: the loop over its group dependencies
RECURSIVE AugmentGroups(_, _, _, _)
AugmentGroups(cache, desc, group_depends, pkgs) ==
    IF group_depends = <<>> THEN [desc |-> desc, raised |-> None]
    ELSE LET group_depend == Head(group_depends) IN
         IF group_depend.evaluated_condition = None
         THEN [desc |-> desc, raised |-> Some("AssertionError")]
         ELSE IF ~The(group_depend.evaluated_condition)
         THEN AugmentGroups(cache, desc, Tail(group_depends), pkgs)
         ELSE AugmentGroups(cache,
                AddMembers(desc, extract_group_members(cache, group_depend, pkgs)),
                Tail(group_depends), pkgs)

\* lines 129-137: the loop over pkgs.items(), from item i on
RECURSIVE AugmentItems(_, _, _, _)
AugmentItems(cache, ds, pkgs, i) ==
    IF i > Len(pkgs) THEN [descs |-> ds, raised |-> None]
    ELSE LET d == pkgs[i].desc
             r == AugmentGroups(cache, ds[d],
                                The(cache[pkgs[i].key].pkg).group_depends, pkgs)
             next == [ds EXCEPT ![d] = r.desc]
         IN  IF r.raised # None THEN [descs |-> next, raised |-> r.raised]
             ELSE AugmentItems(cache, next, pkgs, i + 1)

\* augment_packages(descs) for the batch `batch`, a sequence of descriptor
\* ids in the order the batch is iterated
augment_packages(cache, ds, batch) ==
    AugmentItems(cache, ds, CollectPkgs(cache, ds, batch, <<>>), 1)

\* the batches: every sequence of distinct descriptors
Batches ==
    {b \in UNION {[1..n -> DescIds] : n \in 0..Cardinality(DescIds)} :
        \A i, j \in 1..Len(b) : i # j => b[i] # b[j]}

(***************************************************************************)
(* The state machine.                                                      *)
(***************************************************************************)
\* a directory: its package.xml, the names of MarkerFiles that exist in it,
\* and those of them that are directories and no regular files
Directories ==
    {dir \in [manifest : ManifestIds, files : SUBSET MarkerFiles,
              dirs : SUBSET DirectoryNames] : dir.dirs \subseteq dir.files}

\* the marker files of a whole workspace
FileCount(w) ==
    Cardinality({pf \in (DOMAIN w) \X MarkerFiles : pf[2] \in w[pf[1]].files})

\* the workspaces whose directories are `paths`
Workspaces(paths) == {w \in [paths -> Directories] : FileCount(w) <= MaxFiles}

\* the threads that may be inside get_package_with_build_type at a time
Threads == {"t1", "t2"}

\* a thread that is not inside get_package_with_build_type; in a call, pc is
\* the line the thread executes next, pkg and build_type are its locals,
\* and missed and raced note how the test of line 143 went
Idle ==
    [pc |-> "idle", path |-> None, pkg |-> None, build_type |-> None,
     missed |-> FALSE, raced |-> FALSE, returned |-> None]

\* d1 is a descriptor fresh from the scanner; d2 is any descriptor, for the
\* same directory or the other one; the workspace holds their directories
Init ==
    /\ \E path \in Paths, type \in PresetTypes, name \in PresetNames :
          /\ descs = [d \in DescIds |->
                       IF d = "d1" THEN PackageDescriptor("ws/p1", None, None)
                       ELSE PackageDescriptor(path, type, name)]
          /\ fs \in Workspaces({"ws/p1", path})
    /\ _cached_packages = <<>>
    /\ loads = [p \in Paths |-> 0]
    /\ log = {}
    /\ result = <<>>
    /\ augmented = None
    /\ premature = None
    /\ calls = [t \in Threads |-> Idle]

\* the scanner calls identify(descs[d]); r is what the call does
Identify(d) ==
    \E r \in {identify(_cached_packages, descs[d])} :
    /\ \A p \in r.loaded : loads[p] < MaxLoads
    /\ descs' = [descs EXCEPT ![d] = r.desc]
    /\ _cached_packages' = r.cache
    /\ loads' = [p \in Paths |-> IF p \in r.loaded THEN loads[p] + 1 ELSE loads[p]]
    /\ log' = log \cup r.log
    /\ result' = (d :> [outcome |-> r.outcome, before |-> descs[d], after |-> r.desc])
                 @@ result
    /\ augmented' = None
    /\ UNCHANGED <<fs, premature, calls>>

\* some other caller uses get_package_with_build_type(path) directly
Lookup(path) ==
    \E r \in {get_package_with_build_type(_cached_packages, path)} :
    /\ \A p \in r.loaded : loads[p] < MaxLoads
    /\ _cached_packages' = r.cache
    /\ loads' = [p \in Paths |-> IF p \in r.loaded THEN loads[p] + 1 ELSE loads[p]]
    /\ log' = log \cup r.warnings
    /\ augmented' = None
    /\ UNCHANGED <<fs, descs, result, premature, calls>>

\* the scanner calls augment_packages on a batch of descriptors
Augment(batch) ==
    \E r \in {augment_packages(_cached_packages, descs, batch)} :
    /\ descs' = r.descs
    /\ UNCHANGED <<fs, _cached_packages, loads, log, result, augmented, premature, calls>>

\* the same call, with the batch written down for the claims about batches
AugmentRecorded(batch) ==
    \E r \in {augment_packages(_cached_packages, descs, batch)} :
    /\ descs' = r.descs
    /\ augmented' = Some(batch)
    /\ UNCHANGED <<fs, _cached_packages, loads, log, result, premature, calls>>

Next ==
    \/ \E d \in DescIds : Identify(d)
    \/ \E path \in DOMAIN fs : Lookup(path)
    \/ \E batch \in Batches : Augment(batch)

NextBatch ==
    \/ \E d \in DescIds : Identify(d)
    \/ \E path \in DOMAIN fs : Lookup(path)
    \/ \E batch \in Batches : AugmentRecorded(batch)

Spec == Init /\ [][Next]_vars

\* the same program, keeping the batch of the latest augment_packages call
SpecBatch == Init /\ [][NextBatch]_vars

(***************************************************************************)
(* A workspace that changes between the calls: a marker file is created or *)
(* deleted in a directory while descriptors are identified again; an entry *)
(* of either kind is deleted, and a regular file is created.               *)
(***************************************************************************)
Touch(path, file) ==
    /\ fs' = [fs EXCEPT ![path].files =
                 IF file \in @ THEN @ \ {file} ELSE @ \cup {file},
                         ![path].dirs = @ \ {file}]
    /\ FileCount(fs') <= MaxFiles
    /\ UNCHANGED <<_cached_packages, descs, loads, log, result, augmented, premature, calls>>

NextRescan ==
    \/ \E d \in DescIds : Identify(d)
    \/ \E path \in DOMAIN fs : \E file \in MarkerFiles : Touch(path, file)

SpecRescan == Init /\ [][NextRescan]_vars

(***************************************************************************)
(* get_package_with_build_type line by line, for callers in several       *)
(* threads: a thread may be switched out between any two lines.  A thread  *)
(* makes one call.                                                         *)
(***************************************************************************)
\* a slip: the pair is not stored
CacheStore_Dropped(cache, path, pkg, build_type) == cache

\* line 146 on the dict: _cached_packages[path] = (pkg, build_type)
CacheStore(cache, path, pkg, build_type) ==
    (path :> [pkg |-> pkg, build_type |-> build_type]) @@ cache

\* the threads other than t that are past the test of line 143 for the path
\* and have not yet stored their pair
InWindow(t, path) ==
    {u \in Threads \ {t} :
        calls[u].path = Some(path) /\ calls[u].pc \in {"l144", "l145", "l146"}}

\* thread t calls get_package_with_build_type(path)
Begin(t, path) ==
    /\ calls[t].pc = "idle"
    /\ calls' = [calls EXCEPT ![t] = [Idle EXCEPT !.pc = "l143", !.path = Some(path)]]
    /\ UNCHANGED <<fs, _cached_packages, descs, loads, log, result, augmented, premature>>

\* line 143: if path not in _cached_packages
Check(t) ==
    /\ calls[t].pc = "l143"
    /\ calls' = [calls EXCEPT ![t] =
          IF The(calls[t].path) \notin DOMAIN _cached_packages
          THEN [@ EXCEPT !.pc = "l144", !.missed = TRUE,
                         !.raced = InWindow(t, The(calls[t].path)) # {}]
          ELSE [@ EXCEPT !.pc = "l147"]]
    /\ UNCHANGED <<fs, _cached_packages, descs, loads, log, result, augmented, premature>>

\* line 144: pkg = _get_package(path)
Load(t) ==
    /\ calls[t].pc = "l144"
    /\ loads[The(calls[t].path)] < MaxLoads
    /\ calls' = [calls EXCEPT ![t] =
          [@ EXCEPT !.pc = "l145", !.pkg = _get_package(The(calls[t].path))]]
    /\ loads' = [loads EXCEPT ![The(calls[t].path)] = @ + 1]
    /\ UNCHANGED <<fs, _cached_packages, descs, log, result, augmented, premature>>

\* line 145: build_type = _get_build_type(pkg) if pkg else None; an
\* exception of _get_build_type ends the call
Classify(t) ==
    /\ calls[t].pc = "l145"
    /\ \E r \in {IF calls[t].pkg # None THEN _get_build_type(The(calls[t].pkg))
                 ELSE [raised |-> None, value |-> None, warnings |-> {}]} :
          /\ calls' = [calls EXCEPT ![t] =
                IF r.raised # None THEN [@ EXCEPT !.pc = "raised"]
                ELSE [@ EXCEPT !.pc = "l146", !.build_type = r.value]]
          /\ log' = log \cup r.warnings
    /\ UNCHANGED <<fs, _cached_packages, descs, loads, result, augmented, premature>>

\* line 146: _cached_packages[path] = (pkg, build_type)
Store(t) ==
    /\ calls[t].pc = "l146"
    /\ _cached_packages' =
          CacheStore(_cached_packages, The(calls[t].path), calls[t].pkg, calls[t].build_type)
    /\ calls' = [calls EXCEPT ![t].pc = "l147"]
    /\ UNCHANGED <<fs, descs, loads, log, result, augmented, premature>>

\* line 147: return _cached_packages[path]; the subscript raises KeyError
\* for a path without an entry
Return(t) ==
    /\ calls[t].pc = "l147"
    /\ calls' = [calls EXCEPT ![t] =
          IF The(calls[t].path) \in DOMAIN _cached_packages
          THEN [@ EXCEPT !.pc = "done",
                         !.returned = Some(_cached_packages[The(calls[t].path)])]
          ELSE [@ EXCEPT !.pc = "raised"]]
    /\ UNCHANGED <<fs, _cached_packages, descs, loads, log, result, augmented, premature>>

NextThreads ==
    \/ \E t \in Threads : \E path \in DOMAIN fs : Begin(t, path)
    \/ \E t \in Threads : Check(t)
    \/ \E t \in Threads : Load(t)
    \/ \E t \in Threads : Classify(t)
    \/ \E t \in Threads : Store(t)
    \/ \E t \in Threads : Return(t)

\* the workspaces of Init, with descriptors that play no part
InitThreads ==
    /\ Init
    /\ \A d \in DescIds : descs[d] = PackageDescriptor(descs[d].path, None, None)

SpecThreads == InitThreads /\ [][NextThreads]_vars

(***************************************************************************)
(* Vocabulary of the properties.                                           *)
(***************************************************************************)
\* the directory holds one of the two ignore marker files
IgnoreMarked(path) == fs[path].files \cap {"CATKIN_IGNORE", "AMENT_IGNORE"} # {}

\* the directory holds a package.xml
HasManifest(path) == fs[path].manifest # "absent"

\* the descriptor has a type that is not 'ros'
TypedOtherwise(desc) == desc.type \notin {None, Some("ros")}

\* identify has been called on descriptor d
Called(d) == d \in DOMAIN result

\* the types identify gives: 'ros.' followed by a build type
RosTypes == {Some("ros." \o bt) : bt \in {"catkin", "cmake", "ament_cmake", "ament_python"}}

\* the latest identify call on d went through to the end and typed d
Succeeded(d) ==
    /\ Called(d)
    /\ ~TypedOtherwise(result[d].before)
    /\ result[d].outcome = "return"
    /\ result[d].after.type \in RosTypes

\* descriptor d carries a type given by identify
Identified(d) == descs[d].type \in RosTypes

\* a descriptor as the scanner makes it
Fresh(desc) == desc = PackageDescriptor(desc.path, None, None)

Names(S) == {e.name : e \in S}

\* the names of the entries of a manifest list whose condition evaluated true
TrueNames(list) ==
    {list[i].name : i \in {j \in 1..Len(list) : list[j].evaluated_condition = Some(TRUE)}}

\* the cache holds a package for the directory of d
HasPkg(d) ==
    /\ descs[d].path \in DOMAIN _cached_packages
    /\ _cached_packages[descs[d].path].pkg # None
PkgOf(d) == The(_cached_packages[descs[d].path].pkg)

\* the package of a declares a true-condition group dependency on a group
\* that the package of b is a true-condition member of
DependsOnGroupOf(a, b) ==
    /\ HasPkg(a) /\ HasPkg(b)
    /\ TrueNames(PkgOf(a).group_depends) \cap TrueNames(PkgOf(b).member_of_groups) # {}

Elems(batch) == {batch[i] : i \in 1..Len(batch)}
DistinctPaths(batch) ==
    \A i, j \in 1..Len(batch) : i # j => descs[batch[i]].path # descs[batch[j]].path

\* the descriptors after augment_packages(batch), called in the current state
After(batch) == augment_packages(_cached_packages, descs, batch).descs

\* the manifest names of the packages with a descriptor in the batch that
\* are members of a group the package of a depends on
MembersInBatch(a, batch) ==
    {PkgOf(e).name : e \in {x \in Elems(batch) : DependsOnGroupOf(a, x)}}

\* the manifest at the directory declares more than one build type
SeveralBuildTypes(path) ==
    /\ HasManifest(path)
    /\ parse_package(path).raised = None
    /\ Len(The(parse_package(path).pkg).build_type_exports) > 1

(***************************************************************************)
(* C1.  The loader is invoked at most once per path over any sequence of   *)
(* identify and get_package_with_build_type calls, also for a path whose   *)
(* package cannot be classified.  (Refuted: see C2.)                       *)
(***************************************************************************)
C1_LoaderAtMostOncePerPath == \A p \in Paths : loads[p] <= 1

(***************************************************************************)
(* C2.  For a package that declares more than one build type the           *)
(* classifier logs a warning and returns None, no exception escapes, and   *)
(* identify returns with the descriptor unmodified, or signals             *)
(* IgnoreLocationException when manifest.xml is present.  (Refuted.)       *)
(***************************************************************************)
C2_SeveralBuildTypesWarnAndReturn ==
    \A d \in DOMAIN result :
        (/\ ~TypedOtherwise(result[d].before)
         /\ ~IgnoreMarked(descs[d].path)
         /\ SeveralBuildTypes(descs[d].path))
        => /\ \E w \in log : w.level = "warning"
           /\ result[d].outcome =
                 IF Exists(descs[d].path, "manifest.xml")
                 THEN "IgnoreLocationException" ELSE "return"
           /\ result[d].after = result[d].before

(***************************************************************************)
(* C3.  As claimed: in a directory with CATKIN_IGNORE or AMENT_IGNORE,     *)
(* identify signals IgnoreLocationException for every descriptor and       *)
(* leaves it unmodified.                                                   *)
(***************************************************************************)
C3_Original_IgnoreMarkerAlwaysSkips ==
    \A d \in DOMAIN result :
        IgnoreMarked(descs[d].path)
        => /\ result[d].outcome = "IgnoreLocationException"
           /\ result[d].after = result[d].before

(***************************************************************************)
(* C3, amended.  In a directory with CATKIN_IGNORE or AMENT_IGNORE,        *)
(* identify signals IgnoreLocationException for every descriptor whose     *)
(* type is unset or 'ros'; for a descriptor typed otherwise it returns     *)
(* normally; the descriptor is unmodified either way, and the cache is not *)
(* consulted.                                                              *)
(***************************************************************************)
C3_IgnoreMarkerSkips ==
    \A d \in DOMAIN result :
        IgnoreMarked(descs[d].path)
        => /\ result[d].outcome =
                 IF TypedOtherwise(result[d].before)
                 THEN "return" ELSE "IgnoreLocationException"
           /\ result[d].after = result[d].before

C3_Witness ==
    \E d \in DOMAIN result :
        /\ Exists(descs[d].path, "AMENT_IGNORE")
        /\ fs[descs[d].path].manifest = "pkg_a"
        /\ ~TypedOtherwise(result[d].before)
        /\ result[d].outcome = "IgnoreLocationException"
        /\ descs[d] = result[d].before

(***************************************************************************)
(* C4.  In a directory without package.xml, identify leaves the descriptor *)
(* entirely unmodified, whether it returns or signals                      *)
(* IgnoreLocationException.                                                *)
(***************************************************************************)
C4_NoManifestNoChange ==
    \A d \in DOMAIN result :
        ~HasManifest(descs[d].path) => result[d].after = result[d].before

C4_Witness ==
    \E d \in DOMAIN result :
        /\ ~HasManifest(descs[d].path)
        /\ Exists(descs[d].path, "manifest.xml")
        /\ result[d].outcome = "IgnoreLocationException"
        /\ descs[d].path \in DOMAIN _cached_packages
        /\ \E e \in DOMAIN result : Succeeded(e)

(***************************************************************************)
(* C5.  After a successful identify on a fresh descriptor the build set    *)
(* holds exactly the names of the true-condition entries of build_depends  *)
(* + buildtool_depends, the run set those of build_export_depends +        *)
(* buildtool_export_depends + exec_depends, the test set those of          *)
(* test_depends.                                                           *)
(***************************************************************************)
C5_DependencyRouting ==
    \A d \in DOMAIN result :
        (Succeeded(d) /\ Fresh(result[d].before))
        => LET pkg == PkgOf(d)
               deps == result[d].after.dependencies
           IN  /\ Names(deps["build"]) =
                     TrueNames(pkg.build_depends) \cup TrueNames(pkg.buildtool_depends)
               /\ Names(deps["run"]) =
                     TrueNames(pkg.build_export_depends)
                     \cup TrueNames(pkg.buildtool_export_depends)
                     \cup TrueNames(pkg.exec_depends)
               /\ Names(deps["test"]) = TrueNames(pkg.test_depends)

\* the example of the claim: one true build-depend, one false exec-depend
C5_Witness ==
    \E d \in DOMAIN result :
        /\ Succeeded(d) /\ Fresh(result[d].before)
        /\ Len(PkgOf(d).build_depends) = 1 /\ Len(PkgOf(d).exec_depends) = 1
        /\ PkgOf(d).build_depends[1].evaluated_condition = Some(TRUE)
        /\ PkgOf(d).exec_depends[1].evaluated_condition = Some(FALSE)
        /\ Names(result[d].after.dependencies["build"]) = {PkgOf(d).build_depends[1].name}
        /\ result[d].after.dependencies["run"] = {}

(***************************************************************************)
(* C6.  As claimed: for a batch with identified descriptors a and b, where *)
(* the package of a depends (true condition) on a group that resolves to   *)
(* b, after augment_packages the build and run sets of a contain the name  *)
(* of b, the test set of a is unchanged and b is unchanged.  It is stated   *)
(* for a and b in different directories.                                   *)
(***************************************************************************)
C6_Original_GroupMemberAdded ==
    \A batch \in Batches : \A a, b \in Elems(batch) :
        (/\ a # b /\ Identified(a) /\ Identified(b) /\ DependsOnGroupOf(a, b)
         /\ descs[a].path # descs[b].path)
        => LET post == After(batch) IN
           /\ descs[b].name # None
           /\ The(descs[b].name) \in Names(post[a].dependencies["build"])
           /\ The(descs[b].name) \in Names(post[a].dependencies["run"])
           /\ post[a].dependencies["test"] = descs[a].dependencies["test"]
           /\ post[b] = descs[b]

(***************************************************************************)
(* C6, amended.  For a batch of descriptors with pairwise distinct paths   *)
(* and identified descriptors a and b in it, where the package of a        *)
(* depends (true condition) on a group that the package of b is a member   *)
(* of: after augment_packages the build and run sets of a contain the name *)
(* that the manifest of b declares, the test set of a is unchanged, and b  *)
(* is unchanged unless the package of b itself depends on a group with a   *)
(* member in the batch.                                                    *)
(***************************************************************************)
C6_GroupMemberAdded ==
    \A batch \in Batches : \A a, b \in Elems(batch) :
        (/\ a # b /\ Identified(a) /\ Identified(b) /\ DependsOnGroupOf(a, b)
         /\ DistinctPaths(batch))
        => LET post == After(batch) IN
           /\ PkgOf(b).name \in Names(post[a].dependencies["build"])
           /\ PkgOf(b).name \in Names(post[a].dependencies["run"])
           /\ post[a].dependencies["test"] = descs[a].dependencies["test"]
           /\ MembersInBatch(b, batch) = {} => post[b] = descs[b]

\* augment_packages has run on such a batch: a holds the manifest name of b,
\* which identify had not given it, and b is as identify left it
C6_Witness ==
    \E a, b \in DescIds :
        /\ a # b /\ Identified(a) /\ Identified(b) /\ DependsOnGroupOf(a, b)
        /\ descs[a].path # descs[b].path
        /\ Called(a) /\ Called(b)
        /\ PkgOf(b).name \notin Names(result[a].after.dependencies["build"])
        /\ PkgOf(b).name \notin Names(result[a].after.dependencies["run"])
        /\ PkgOf(b).name \in Names(descs[a].dependencies["build"])
        /\ PkgOf(b).name \in Names(descs[a].dependencies["run"])
        /\ descs[a].dependencies["test"] = result[a].after.dependencies["test"]
        /\ descs[b] = result[b].after

(***************************************************************************)
(* C7.  As claimed: when b, a member of a group that a depends on, has     *)
(* been identified and is in the cache but its descriptor is not in the    *)
(* batch, augment_packages leaves the dependency sets of a unchanged.  It   *)
(* is stated for a and b in different directories.                         *)
(***************************************************************************)
C7_Original_MemberOutsideBatch ==
    \A batch \in Batches : \A a \in Elems(batch) : \A b \in DescIds \ Elems(batch) :
        (Called(b) /\ DependsOnGroupOf(a, b) /\ descs[a].path # descs[b].path)
        => After(batch)[a].dependencies = descs[a].dependencies

(***************************************************************************)
(* C7, amended.  When b, a member of a group that a depends on, has been   *)
(* identified and is in the cache but its descriptor is not in the batch,  *)
(* augment_packages leaves the dependency sets of a unchanged, unless a    *)
(* package with a descriptor in the batch (that of a included) is a member *)
(* of a group a depends on: the sets of a gain the names of the members in *)
(* the batch and nothing else.                                             *)
(***************************************************************************)
C7_MemberOutsideBatch ==
    \A batch \in Batches : \A a \in Elems(batch) : \A b \in DescIds \ Elems(batch) :
        (Called(b) /\ DependsOnGroupOf(a, b))
        => LET post == After(batch) IN
           /\ MembersInBatch(a, batch) = {}
                 => post[a].dependencies = descs[a].dependencies
           /\ \A k \in {"build", "run"} :
                 Names(post[a].dependencies[k]) \ Names(descs[a].dependencies[k])
                    \subseteq MembersInBatch(a, batch)
           /\ post[a].dependencies["test"] = descs[a].dependencies["test"]

\* augment_packages has just run on a batch with a and without b, and a is
\* as identify left it
C7_Witness ==
    /\ augmented # None
    /\ \E a \in Elems(The(augmented)) : \E b \in DescIds \ Elems(The(augmented)) :
        /\ Called(a) /\ Called(b) /\ Identified(a) /\ Identified(b)
        /\ DependsOnGroupOf(a, b)
        /\ MembersInBatch(a, The(augmented)) = {}
        /\ PkgOf(b).name \notin Names(descs[a].dependencies["run"])
        /\ descs[a] = result[a].after

(***************************************************************************)
(* C8.  identify never overrides a name that the descriptor has already;   *)
(* a successful identify gives a descriptor without a name the name that   *)
(* the manifest declares.                                                  *)
(***************************************************************************)
C8_NamePrecedence ==
    \A d \in DOMAIN result :
        /\ result[d].before.name # None => result[d].after.name = result[d].before.name
        /\ (Succeeded(d) /\ result[d].before.name = None)
              => result[d].after.name = Some(PkgOf(d).name)

C8_Witness ==
    \E d, e \in DOMAIN result :
        /\ Succeeded(d)
        /\ result[d].before.name = Some("custom")
        /\ PkgOf(d).name # "custom"
        /\ descs[d].name = Some("custom")
        /\ Succeeded(e)
        /\ result[e].before.name = None
        /\ descs[e].name = Some(PkgOf(e).name)

(***************************************************************************)
(* C9.  identify on two distinct fresh descriptors for the same path, one  *)
(* after the other, ends the same way for both and leaves both with the    *)
(* same type, name, metadata and dependency sets.                          *)
(***************************************************************************)
C9_SecondCallSameResult ==
    \A d, e \in DOMAIN result :
        (/\ d # e
         /\ descs[d].path = descs[e].path
         /\ Fresh(result[d].before) /\ Fresh(result[e].before))
        => /\ result[d].outcome = result[e].outcome
           /\ result[d].after = result[e].after

\* both calls succeeded and the loader ran once: the second was served from
\* the cache
C9_Witness ==
    \E d, e \in DOMAIN result :
        /\ d # e
        /\ descs[d].path = descs[e].path
        /\ Fresh(result[d].before) /\ Fresh(result[e].before)
        /\ Succeeded(d) /\ Succeeded(e)
        /\ loads[descs[d].path] = 1
        /\ result[d].after.dependencies["build"] # {}

(***************************************************************************)
(* C10.  For a batch whose descriptors have pairwise distinct paths, the   *)
(* dependency sets after augment_packages do not depend on the order in    *)
(* which the batch is iterated, and a second augment_packages on the same  *)
(* batch changes nothing.                                                  *)
(***************************************************************************)
C10_OrderIndependentIdempotent ==
    \A batch \in Batches :
        DistinctPaths(batch)
        => LET post == After(batch) IN
           /\ \A other \in Batches \ {batch} :
                 Elems(other) = Elems(batch) => After(other) = post
           /\ augment_packages(_cached_packages, post, batch).descs = post

\* augment_packages has run on the two descriptors, which have distinct
\* paths, and has added a member to one of them; a further run, in either
\* order, changes nothing
C10_Witness ==
    /\ descs["d1"].path # descs["d2"].path
    /\ \E d \in DescIds :
          /\ Called(d)
          /\ descs[d].dependencies["run"] # result[d].after.dependencies["run"]
    /\ After(<<"d1", "d2">>) = descs
    /\ After(<<"d2", "d1">>) = descs

\* the manifest at the directory exists and parse_package raises on it
Unparsable(path) == fs[path].manifest \in {"malformed", "asserting"}

\* the cache holds the pair (None, None) for the path
CachedAbsent(path) ==
    /\ path \in DOMAIN _cached_packages
    /\ _cached_packages[path] = [pkg |-> None, build_type |-> None]

(***************************************************************************)
(* C11.  When package.xml exists and parse_package raises InvalidPackage   *)
(* or AssertionError, the loader returns None, the pair (None, None) is    *)
(* cached, and identify returns with the descriptor unmodified, or signals *)
(* IgnoreLocationException when manifest.xml is present; no other          *)
(* exception leaves identify.                                              *)
(***************************************************************************)
C11_UnparsableManifestSoftFails ==
    \A d \in DOMAIN result :
        (/\ ~TypedOtherwise(result[d].before)
         /\ ~IgnoreMarked(descs[d].path)
         /\ Unparsable(descs[d].path))
        => /\ result[d].outcome =
                 IF "manifest.xml" \in fs[descs[d].path].files
                 THEN "IgnoreLocationException" ELSE "return"
           /\ result[d].after = result[d].before
           /\ CachedAbsent(descs[d].path)
           /\ loads[descs[d].path] = 1

\* identify has returned for a manifest the parser asserted on, and the
\* descriptor of the other directory has been identified all the same
C11_Witness ==
    \E d, e \in DOMAIN result :
        /\ fs[descs[d].path].manifest = "asserting"
        /\ ~TypedOtherwise(result[d].before)
        /\ result[d].outcome = "return"
        /\ CachedAbsent(descs[d].path)
        /\ descs[d] = result[d].before
        /\ Succeeded(e)

\* the five version-bound keys
VersionKeys == {"version_lte", "version_lt", "version_gte", "version_gt", "version_eq"}

\* the manifest entries that a dependency set is filled from
Feeds(pkg, k) ==
    CASE k = "build" -> pkg.build_depends \o pkg.buildtool_depends
      [] k = "run" -> pkg.build_export_depends \o pkg.buildtool_export_depends
                      \o pkg.exec_depends
      [] k = "test" -> pkg.test_depends

\* the metadata holds the bounds the manifest entry m declares, and no more
HoldsBoundsOf(metadata, m) ==
    /\ DOMAIN metadata = {a \in VersionKeys : m[a] # None}
    /\ \A a \in DOMAIN metadata : metadata[a] = The(m[a])

(***************************************************************************)
(* C12.  The metadata identify attaches to a dependency holds exactly the  *)
(* version-bound keys that are set on a true-condition manifest entry of   *)
(* that name, each with the value of the manifest, and no other key.       *)
(***************************************************************************)
C12_MetadataExactlyDeclaredBounds ==
    \A d \in DOMAIN result :
        (Succeeded(d) /\ Fresh(result[d].before))
        => \A k \in {"build", "run", "test"} :
              \A e \in result[d].after.dependencies[k] :
                 \E i \in 1..Len(Feeds(PkgOf(d), k)) :
                    LET m == Feeds(PkgOf(d), k)[i] IN
                    /\ m.name = e.name
                    /\ m.evaluated_condition = Some(TRUE)
                    /\ HoldsBoundsOf(e.metadata, m)

\* the example of the claim: a dependency with only a >= 1.2 bound, and
\* beside it a dependency without any bound
C12_Witness ==
    \E d \in DOMAIN result :
        /\ Succeeded(d) /\ Fresh(result[d].before)
        /\ PkgOf(d).build_depends[1].version_gte = Some("1.2")
        /\ \E e \in result[d].after.dependencies["build"] :
              /\ e.name = PkgOf(d).build_depends[1].name
              /\ e.metadata = ("version_gte" :> "1.2")
        /\ \E e \in result[d].after.dependencies["build"] : DOMAIN e.metadata = {}

\* what identify does with descriptor d when called in the current state
Call(d) == identify(_cached_packages, descs[d])

\* the call neither reads nor writes the cache, and logs nothing
LeavesCacheAlone(r) ==
    /\ r.cache = _cached_packages
    /\ r.loaded = {}
    /\ r.log = {}

(***************************************************************************)
(* C13.  For a descriptor whose type is set to something other than 'ros', *)
(* identify returns at once and normally, whatever markers the directory   *)
(* holds: the descriptor is unchanged and the cache is neither consulted   *)
(* nor populated.  The ignore-marker check comes next and also precedes    *)
(* the cache lookup.                                                       *)
(***************************************************************************)
C13_TypedOtherwiseReturnsAtOnce ==
    /\ \A d \in DOMAIN result :
          TypedOtherwise(result[d].before)
          => /\ result[d].outcome = "return"
             /\ result[d].after = result[d].before
    /\ \A d \in DescIds :
          /\ TypedOtherwise(descs[d])
             => /\ Call(d).outcome = "return"
                /\ Call(d).desc = descs[d]
                /\ LeavesCacheAlone(Call(d))
          /\ (~TypedOtherwise(descs[d]) /\ IgnoreMarked(descs[d].path))
             => /\ Call(d).outcome = "IgnoreLocationException"
                /\ LeavesCacheAlone(Call(d))

\* identify has returned for a descriptor typed 'cmake' in a directory with
\* an ignore marker, and the cache has no entry for the directory
C13_Witness ==
    \E d \in DOMAIN result :
        /\ result[d].before.type = Some("cmake")
        /\ IgnoreMarked(descs[d].path)
        /\ HasManifest(descs[d].path)
        /\ result[d].outcome = "return"
        /\ descs[d] = result[d].before
        /\ descs[d].path \notin DOMAIN _cached_packages

\* the directory has a regular file of that name
RegularFile(path, name) == name \in fs[path].files /\ name \notin fs[path].dirs

\* the manifest at the directory parses and declares the one build type bt
DeclaresBuildType(path, bt) ==
    /\ HasManifest(path)
    /\ ~Unparsable(path)
    /\ ManifestPackage(fs[path].manifest).build_type_exports = <<bt>>

(***************************************************************************)
(* C14.  When the build type is ament_python and the directory has no      *)
(* setup.py file (no entry of that name, or one that is no regular file),  *)
(* identify logs an error naming the path and the build type and           *)
(* signals IgnoreLocationException before it changes anything: type, name, *)
(* metadata and dependency sets are as before, and the cache entry of the  *)
(* path holds the parsed package with its build type.                      *)
(***************************************************************************)
C14_MissingSetupPySkipsUnchanged ==
    \A d \in DOMAIN result :
        (/\ ~TypedOtherwise(result[d].before)
         /\ ~IgnoreMarked(descs[d].path)
         /\ DeclaresBuildType(descs[d].path, "ament_python")
         /\ ~RegularFile(descs[d].path, "setup.py"))
        => /\ result[d].outcome = "IgnoreLocationException"
           /\ result[d].after = result[d].before
           /\ \E rec \in log :
                 /\ rec.level = "error"
                 /\ rec.path = Some(descs[d].path)
                 /\ rec.build_type = Some("ament_python")
           /\ HasPkg(d)
           /\ PkgOf(d).name = ManifestPackage(fs[descs[d].path].manifest).name
           /\ _cached_packages[descs[d].path].build_type = Some("ament_python")

\* identify has skipped two ament_python packages: one directory has no
\* setup.py at all, in the other setup.py is a directory
C14_Witness ==
    \E d, e \in DOMAIN result :
        /\ "setup.py" \notin fs[descs[d].path].files
        /\ "setup.py" \in fs[descs[e].path].dirs
        /\ \A x \in {d, e} :
              /\ DeclaresBuildType(descs[x].path, "ament_python")
              /\ Fresh(result[x].before)
              /\ result[x].outcome = "IgnoreLocationException"
              /\ descs[x] = result[x].before
              /\ HasPkg(x)
              /\ \E rec \in log : rec.level = "error" /\ rec.path = Some(descs[x].path)

\* the positions of the true-condition entries called `name` in a manifest list
TruePositions(list, name) ==
    {i \in 1..Len(list) :
        list[i].name = name /\ list[i].evaluated_condition = Some(TRUE)}

\* the first of them
FirstTrue(list, name) ==
    list[CHOOSE i \in TruePositions(list, name) :
            \A j \in TruePositions(list, name) : i <= j]

(***************************************************************************)
(* C15.  A dependency set holds at most one entry per name, and the entry  *)
(* added first keeps its metadata: of the manifest entries of one name     *)
(* that feed a set, the first with a true condition gives the metadata,    *)
(* and augment_packages does not replace or duplicate an entry that        *)
(* identify has added.                                                     *)
(***************************************************************************)
C15_OneEntryPerNameFirstWins ==
    /\ \A d \in DescIds : \A k \in {"build", "run", "test"} :
          \A e1, e2 \in descs[d].dependencies[k] : e1.name = e2.name => e1 = e2
    /\ \A d \in DOMAIN result :
          /\ (Succeeded(d) /\ Fresh(result[d].before))
             => \A k \in {"build", "run", "test"} :
                   \A e \in result[d].after.dependencies[k] :
                      /\ TruePositions(Feeds(PkgOf(d), k), e.name) # {}
                      /\ HoldsBoundsOf(e.metadata, FirstTrue(Feeds(PkgOf(d), k), e.name))
          /\ \A k \in {"build", "run", "test"} :
                result[d].after.dependencies[k] \subseteq descs[d].dependencies[k]

\* identify has met the name b twice for the build set of a, with different
\* bounds, and augment_packages has then added the group member b to a
C15_Witness ==
    \E a, b \in DOMAIN result :
        /\ a # b /\ Succeeded(a) /\ Fresh(result[a].before) /\ Identified(b)
        /\ DependsOnGroupOf(a, b)
        /\ Cardinality(TruePositions(Feeds(PkgOf(a), "build"), PkgOf(b).name)) = 2
        /\ PkgOf(b).name \notin Names(result[a].after.dependencies["run"])
        /\ \E e \in descs[a].dependencies["run"] :
              e.name = PkgOf(b).name /\ DOMAIN e.metadata = {}
        /\ \E e \in descs[a].dependencies["build"] :
              e.name = PkgOf(b).name /\ e.metadata = ("version_gte" :> "1.2")
        /\ Cardinality(descs[a].dependencies["build"])
              = Cardinality(result[a].after.dependencies["build"])

\* d is the last descriptor of the batch for its path: the one that the
\* mapping from packages to descriptors keeps
LastOfPath(d, batch) ==
    \E i \in 1..Len(batch) :
        /\ batch[i] = d
        /\ \A j \in (i + 1)..Len(batch) : descs[batch[j]].path # descs[d].path

(***************************************************************************)
(* C16.  augment_packages changes a descriptor only if the cache has an    *)
(* entry for its path and the package of that entry is not None; every     *)
(* other descriptor is left unchanged and is no group member.  Whether a   *)
(* descriptor is taken depends on the cache alone: a descriptor with a     *)
(* cached package receives the members of its groups whatever its type     *)
(* and however its identify call ended.                                    *)
(***************************************************************************)
C16_EligibleByCacheAlone ==
    \A batch \in Batches :
        LET post == After(batch)
            taken == {PkgOf(e).name : e \in {x \in Elems(batch) : HasPkg(x)}}
        IN
        \A d \in DescIds :
        /\ (d \notin Elems(batch) \/ ~HasPkg(d)) => post[d] = descs[d]
        /\ \A k \in {"build", "run"} :
              Names(post[d].dependencies[k]) \ Names(descs[d].dependencies[k])
                 \subseteq taken
        /\ (HasPkg(d) /\ LastOfPath(d, batch))
              => LET members == MembersInBatch(d, batch) IN
                 \A k \in {"build", "run"} :
                    members \subseteq Names(post[d].dependencies[k])

\* identify has signalled IgnoreLocationException for d and left it without
\* a type, its package is cached, and augment_packages has added a member
\* to it; the other descriptor, cached as absent, is as it was
C16_Witness ==
    \E d, e \in DOMAIN result :
        /\ result[d].outcome = "IgnoreLocationException"
        /\ descs[d].type = None
        /\ HasPkg(d)
        /\ result[d].after.dependencies["build"] = {}
        /\ descs[d].dependencies["build"] # {}
        /\ CachedAbsent(descs[e].path)
        /\ descs[e] = result[e].before

\* the package of a depends, under a false condition, on a group that the
\* package of b is a true-condition member of
DependsFalselyOnGroupOf(a, b) ==
    /\ HasPkg(a) /\ HasPkg(b)
    /\ \E i \in 1..Len(PkgOf(a).group_depends) :
          /\ PkgOf(a).group_depends[i].evaluated_condition = Some(FALSE)
          /\ PkgOf(a).group_depends[i].name \in TrueNames(PkgOf(b).member_of_groups)

\* what augment_packages(batch) does to the sets of d: build and run both
\* gain the members in the batch, test is untouched
GainsMembers(d, batch, post) ==
    /\ LET members == MembersInBatch(d, batch) IN
       \A k \in {"build", "run"} :
          Names(post[d].dependencies[k]) = Names(descs[d].dependencies[k]) \cup members
    /\ post[d].dependencies["test"] = descs[d].dependencies["test"]

(***************************************************************************)
(* C17.  As claimed: for each descriptor of the batch whose path has a     *)
(* cached package, the names augment_packages adds to its build set and to *)
(* its run set are exactly the members, in the batch, of the groups its    *)
(* package depends on under a true condition; the test set is untouched.   *)
(* It is stated for batches whose descriptors differ in type or name, so   *)
(* that one set of descriptors holds them all.                             *)
(***************************************************************************)
C17_Original_EveryEligibleGainsMembers ==
    \A batch \in Batches :
        LET post == After(batch) IN
        \A d \in Elems(batch) :
        (/\ HasPkg(d)
         /\ \A i, j \in 1..Len(batch) :
               i # j => <<descs[batch[i]].type, descs[batch[i]].name>>
                        # <<descs[batch[j]].type, descs[batch[j]].name>>)
        => GainsMembers(d, batch, post)

(***************************************************************************)
(* C17, amended.  The same, for each descriptor that the mapping from      *)
(* packages to descriptors keeps, which is the last descriptor of the      *)
(* batch for its path; an earlier descriptor of the same path is left      *)
(* unchanged.  Group dependencies with a false condition contribute        *)
(* nothing, and the declaring package is not filtered out when it is a     *)
(* member of a group it depends on.                                        *)
(***************************************************************************)
C17_MappedGainsMembers ==
    \A batch \in Batches :
        LET post == After(batch) IN
        \A d \in Elems(batch) :
        HasPkg(d)
        => IF LastOfPath(d, batch) THEN GainsMembers(d, batch, post)
           ELSE post[d] = descs[d]

\* augment_packages has run: a has the member b of the group g, which it
\* depends on under a true condition; a has not itself, a member of the
\* group h, which it depends on under a false condition; and b, a member of
\* the group g it depends on, has itself
C17_Witness ==
    \E a, b \in DOMAIN result :
        /\ a # b /\ Succeeded(a) /\ Succeeded(b)
        /\ DependsOnGroupOf(a, b)
        /\ PkgOf(b).name \notin Names(result[a].after.dependencies["run"])
        /\ PkgOf(b).name \in Names(descs[a].dependencies["build"])
        /\ PkgOf(b).name \in Names(descs[a].dependencies["run"])
        /\ DependsFalselyOnGroupOf(a, a)
        /\ PkgOf(a).name \notin Names(descs[a].dependencies["build"])
        /\ PkgOf(a).name \notin Names(descs[a].dependencies["run"])
        /\ DependsOnGroupOf(b, b)
        /\ PkgOf(b).name \in Names(descs[b].dependencies["build"])
        /\ descs[a].dependencies["test"] = result[a].after.dependencies["test"]

(***************************************************************************)
(* The batch protocol of the scanner: identify is called once for each     *)
(* descriptor, in any order, and augment_packages once with all of them    *)
(* when every identify call has ended.  EarlyAugment is a call of          *)
(* augment_packages that does not wait for the identify calls: it is made  *)
(* during the scan, at most once, and the scan goes on after it.           *)
(***************************************************************************)
ProtocolIdentify(d) ==
    /\ d \notin DOMAIN result
    /\ Identify(d)

ProtocolAugment(batch) ==
    /\ augmented = None
    /\ DOMAIN result = DescIds
    /\ Elems(batch) = DescIds
    /\ AugmentRecorded(batch)

EarlyAugment(batch) ==
    /\ premature = None
    /\ DOMAIN result # DescIds
    /\ Elems(batch) = DescIds
    /\ \E r \in {augment_packages(_cached_packages, descs, batch)} :
          /\ descs' = r.descs
          /\ augmented' = Some(batch)
          /\ premature' = Some([batch |-> batch, called |-> DOMAIN result,
                                cache |-> _cached_packages,
                                before |-> descs, after |-> r.descs])
    /\ UNCHANGED <<fs, _cached_packages, loads, log, result, calls>>

NextProtocol ==
    \/ \E d \in DescIds : ProtocolIdentify(d)
    \/ \E batch \in Batches : ProtocolAugment(batch)
    \/ \E batch \in Batches : EarlyAugment(batch)

SpecProtocol == Init /\ [][NextProtocol]_vars

\* the paths of the descriptors are unique in the scan
UniquePaths == \A d, e \in DescIds : d # e => descs[d].path # descs[e].path

\* augment_packages has been called after every identify call
AugmentedInTime == augmented # None /\ DOMAIN result = DescIds

\* the descriptors as the scanner handed them to identify
Scanned == [d \in DescIds |-> result[d].before]

\* the orders in which the scanner can make its identify calls
Orders == {order \in Batches : Elems(order) = DescIds}

\* the cache and the descriptors after the identify calls made in `order`
\* on the descriptors ds, starting with the cache `cache`
RECURSIVE IdentifyAll(_, _, _)
IdentifyAll(cache, ds, order) ==
    IF order = <<>> THEN [cache |-> cache, descs |-> ds]
    ELSE LET r == identify(cache, ds[Head(order)])
         IN  IdentifyAll(r.cache, [ds EXCEPT ![Head(order)] = r.desc], Tail(order))

\* the state is the one that the identify calls made in `order`, followed
\* by augment_packages when it has been called, give from an empty cache
SameAsIn(order) ==
    \E s \in {IdentifyAll(<<>>, Scanned, order)} :
       /\ _cached_packages = s.cache
       /\ descs = IF augmented = None THEN s.descs
                  ELSE augment_packages(s.cache, s.descs, The(augmented)).descs

\* the state of the descriptors and the cache do not depend on the order of
\* the identify calls: it is the state every order gives.  A scan with an
\* early call of augment_packages is compared at its end.
OrderIndependent ==
    (/\ DOMAIN result = DescIds
     /\ premature = None \/ (UniquePaths /\ augmented # None))
    => \A order \in Orders : SameAsIn(order)

\* the package the loader would give for the directory of d
WouldLoad(d) == _get_package(descs[d].path)

\* when the early call was made: the cache held a package for the directory
\* of d
HadPkg(d) ==
    /\ descs[d].path \in DOMAIN The(premature).cache
    /\ The(premature).cache[descs[d].path].pkg # None
HadPkgOf(d) == The(The(premature).cache[descs[d].path].pkg)

\* when the early call was made, identify had not been called for the path
\* of b
NotYetIdentified(b) ==
    \A e \in The(premature).called : descs[e].path # descs[b].path

\* when the early call was made, the package of a depended on a group that
\* the package in the directory of b, not yet identified, is a member of
MissedMemberOf(a, b) ==
    /\ HadPkg(a)
    /\ NotYetIdentified(b)
    /\ WouldLoad(b) # None
    /\ TrueNames(HadPkgOf(a).group_depends)
          \cap TrueNames(The(WouldLoad(b)).member_of_groups) # {}

\* after augment_packages in time, every member is in the sets of a
ResolvedFor(a) ==
    \A b \in DescIds :
        DependsOnGroupOf(a, b)
        => \A k \in {"build", "run"} :
              PkgOf(b).name \in Names(descs[a].dependencies[k])

\* a path that identify has not been called for has no cache entry when the
\* early call is made
EarlyNoEntry ==
    premature # None
    => \A b \in DescIds :
          NotYetIdentified(b) => descs[b].path \notin DOMAIN The(premature).cache

(***************************************************************************)
(* C18.  As claimed, for descriptors with unique paths: under the batch    *)
(* protocol the final state of every descriptor is independent of the      *)
(* order of the identify calls, and after augment_packages every group     *)
(* member in the batch is in the build and run sets of the descriptors     *)
(* that depend on its group; when augment_packages runs before identify    *)
(* was called for the path of a member, the member has no cache entry and  *)
(* is missing from the build and run sets of the depending descriptor.     *)
(***************************************************************************)
C18_Original_BarrierResolvesEveryMember ==
    UniquePaths
    => /\ OrderIndependent
       /\ AugmentedInTime => \A a \in DescIds : ResolvedFor(a)
       /\ EarlyNoEntry
       /\ premature # None
          => \A a, b \in DescIds :
                MissedMemberOf(a, b)
                => \A k \in {"build", "run"} :
                      The(WouldLoad(b)).name
                         \notin Names(The(premature).after[a].dependencies[k])

(***************************************************************************)
(* C18, amended.  Under the batch protocol the final state of every        *)
(* descriptor is independent of the order of the identify calls, and       *)
(* after augment_packages every group member in the batch is in the build  *)
(* and run sets of the descriptors that depend on its group (of several    *)
(* descriptors for one path, which a scan does not have, the last of the   *)
(* batch).  When augment_packages runs before identify was called for the  *)
(* path of a member, the member has no cache entry and augment_packages    *)
(* does not add it: its name is in a set of the depending descriptor only  *)
(* if identify has put it there, as a dependency the manifest declares     *)
(* directly, or if a package that has a cache entry carries the same name  *)
(* and is a member of such a group.                                        *)
(***************************************************************************)
C18_BarrierResolvesMembers ==
    /\ OrderIndependent
    /\ AugmentedInTime
       => \A a \in DescIds : LastOfPath(a, The(augmented)) => ResolvedFor(a)
    /\ EarlyNoEntry
    /\ premature # None
       => \A a, b \in DescIds :
             MissedMemberOf(a, b)
             => \A k \in {"build", "run"} :
                   The(WouldLoad(b)).name
                      \in Names(The(premature).after[a].dependencies[k])
                   => \/ The(WouldLoad(b)).name
                            \in Names(The(premature).before[a].dependencies[k])
                      \/ \E e \in DescIds :
                            /\ HadPkg(e)
                            /\ HadPkgOf(e).name = The(WouldLoad(b)).name
                            /\ TrueNames(HadPkgOf(a).group_depends)
                                  \cap TrueNames(HadPkgOf(e).member_of_groups) # {}

\* a scan of two directories has run to its end: augment_packages was
\* called early, when identify had been called for a and not for b, and
\* left b out of the sets of a; called again after the last identify call
\* it has given a the member b
C18_Witness ==
    /\ AugmentedInTime
    /\ premature # None
    /\ UniquePaths
    /\ \A order \in Orders : SameAsIn(order)
    /\ \E a, b \in DescIds :
          /\ a # b /\ Succeeded(a) /\ Succeeded(b)
          /\ a \in The(premature).called
          /\ MissedMemberOf(a, b)
          /\ DependsOnGroupOf(a, b)
          /\ PkgOf(b).name = The(WouldLoad(b)).name
          /\ \A k \in {"build", "run"} :
                /\ PkgOf(b).name \notin Names(The(premature).after[a].dependencies[k])
                /\ PkgOf(b).name \in Names(descs[a].dependencies[k])

\* the threads that found no entry for the path at line 143 and have run
\* the loader of line 144
LoadedBy(path) ==
    {t \in Threads :
        /\ calls[t].path = Some(path)
        /\ calls[t].missed
        /\ calls[t].pc \notin {"l143", "l144"}}

(***************************************************************************)
(* C19.  The cache lookup is a check-then-insert without a lock: every     *)
(* call that finds no entry at the test runs the loader, so two calls for  *)
(* one uncached path of which the second makes its test before the first   *)
(* has stored its pair invoke the loader twice, once both have passed     *)
(* line 144.  For a path whose package                                     *)
(* can be classified the loader runs more than once only in that way:      *)
(* calls made one after the other invoke it once.                          *)
(***************************************************************************)
C19_UnguardedCheckThenInsert ==
    \A p \in DOMAIN fs :
        /\ loads[p] = Cardinality(LoadedBy(p))
        /\ (/\ \E t \in LoadedBy(p) : calls[t].raced
            /\ \A u \in Threads : ~(calls[u].path = Some(p) /\ calls[u].pc = "l144"))
              => loads[p] >= 2
        /\ (loads[p] >= 2 /\ ~SeveralBuildTypes(p))
              => \E t \in LoadedBy(p) : calls[t].raced

\* two calls for the directory of a well-formed package have interleaved
\* between test and insert, both have returned the pair, and the loader
\* has run twice
C19_Witness ==
    \E p \in DOMAIN fs :
        /\ fs[p].manifest = "pkg_a"
        /\ \A t \in Threads :
              /\ calls[t].pc = "done"
              /\ calls[t].path = Some(p)
              /\ calls[t].missed
              /\ calls[t].returned = Some(_cached_packages[p])
        /\ \E t \in Threads : calls[t].raced
        /\ loads[p] = 2

\* the latest identify call on d went past every check and returned: the
\* cache holds a package and a build type for the path
WentThrough(d) ==
    /\ Called(d)
    /\ ~TypedOtherwise(result[d].before)
    /\ result[d].outcome = "return"
    /\ HasPkg(d)
    /\ _cached_packages[descs[d].path].build_type \notin {None, Some("")}

(***************************************************************************)
(* C20.  After identify has succeeded on a descriptor its type is 'ros.'   *)
(* followed by the build type cached for its path, and a further identify  *)
(* call on that descriptor returns at the type check: it changes neither   *)
(* the descriptor nor the cache and logs nothing, also when marker files   *)
(* of the directory have been created or deleted in the meantime.          *)
(***************************************************************************)
C20_IdentifiedIsLeftAlone ==
    /\ \A d \in DOMAIN result :
          /\ WentThrough(d)
             => result[d].after.type =
                   Some("ros." \o The(_cached_packages[descs[d].path].build_type))
          /\ result[d].before.type \in RosTypes
             => /\ result[d].outcome = "return"
                /\ result[d].after = result[d].before
    /\ \A d \in DescIds :
          Identified(d)
          => /\ Call(d).outcome = "return"
             /\ Call(d).desc = descs[d]
             /\ LeavesCacheAlone(Call(d))

\* identify has been called again on a descriptor it had identified, after
\* an ignore marker was created in the directory, and has returned
C20_Witness ==
    \E d \in DOMAIN result :
        /\ result[d].before.type \in RosTypes
        /\ result[d].before.type =
              Some("ros." \o The(_cached_packages[descs[d].path].build_type))
        /\ IgnoreMarked(descs[d].path)
        /\ result[d].outcome = "return"
        /\ descs[d] = result[d].before
        /\ loads[descs[d].path] = 1

====
